---- MODULE Spec2Model ----
\* Model of chromiumoxide's CommandChain (src/src/cmd.rs) and FrameManager
\* (src/src/handler/frame.rs).
\*
\* Rust Option<T> is modelled as a sequence of length <= 1:
\*   None == << >>,  Some(x) == << x >>.
\* Instants are natural numbers (ticks of the monotonic clock).
EXTENDS Integers, Sequences, FiniteSets, TLC

\* ---------------------------------------------------------------------------
\* Bounds of the model
\* ---------------------------------------------------------------------------
\* crate::handler::REQUEST_TIMEOUT, in clock ticks of the model
REQUEST_TIMEOUT == 2
\* the clock stops advancing at MaxTime
MaxTime == REQUEST_TIMEOUT + 1
\* longest command list (constructor plus push_back) explored
MaxCmds == 5

None == << >>
Some(x) == << x >>
IsSome(o) == o # << >>
Unwrap(o) == o[1]

\* ---------------------------------------------------------------------------
\* CommandChain  (src/src/cmd.rs)
\* ---------------------------------------------------------------------------
VARIABLES
    clock,      \* Instant::now(): the monotonic clock
    chain,      \* the CommandChain: [cmds, waiting, timeout]
    chainRet,   \* the last CommandChain call and what it returned
    enqueued,   \* history: every (method, params) given to new / push_back, in order
    issued,     \* history: every step poll returned as Ready(Some(Ok(..))), in order
    unacked,    \* history: steps issued and not yet matched by received_response
    timeouts,   \* history: number of polls that returned DeadlineExceeded
    missed      \* history: the clock passed the deadline of a waiting step

chainVars == << chain, chainRet, enqueued, issued, unacked, timeouts, missed >>

Cmd(method, params) == [method |-> method, params |-> params]

\* The four commands of FrameManager::init_commands, in order.
InitCommands ==
    << Cmd("Page.enable", "{}"),
       Cmd("Page.getFrameTree", "{}"),
       Cmd("Page.setLifecycleEventsEnabled", "{enabled:true}"),
       Cmd("Runtime.enable", "{}") >>

\* Identifiers a response or a pushed command may carry.
Methods ==
    { "Page.enable", "Page.getFrameTree", "Page.setLifecycleEventsEnabled",
      "Runtime.enable" }

\* Methods of the commands pushed with push_back.
PushMethods == { "Page.enable", "Runtime.enable" }

\* seq without its first element whose method is m
RECURSIVE RemoveFirst(_, _)
RemoveFirst(seq, m) ==
    IF seq = << >> THEN << >>
    ELSE IF Head(seq).method = m THEN Tail(seq)
    ELSE << Head(seq) >> \o RemoveFirst(Tail(seq), m)

\* Iterators handed to CommandChain::new: the init chain, the Default (empty)
\* chain, and a chain that repeats a method.
InitChains ==
    { InitCommands,
      << >>,
      << Cmd("Page.enable", "{}"), Cmd("Page.enable", "{}") >> }

\* CommandChain::new
ChainNew(cmds) ==
    [cmds |-> cmds, waiting |-> None, timeout |-> REQUEST_TIMEOUT]

\* CommandChain::push_back
ChainPushBack(c, method, params) ==
    [c EXCEPT !.cmds = Append(@, Cmd(method, params))]

\* CommandChain::received_response: the chain afterwards and the returned bool
ReceivedResponseMutAnyMethod(c, identifier) ==
    IF IsSome(c.waiting)
    THEN [chain |-> [c EXCEPT !.waiting = None], ret |-> TRUE]
    ELSE [chain |-> c, ret |-> FALSE]

ChainReceivedResponse(c, identifier) ==
    IF IsSome(c.waiting) /\ Unwrap(c.waiting).method = identifier
    THEN [chain |-> [c EXCEPT !.waiting = None], ret |-> TRUE]
    ELSE [chain |-> c, ret |-> FALSE]

\* Results of CommandChain::poll
PollPending == [kind |-> "Pending", step |-> None]
PollDone == [kind |-> "ReadyNone", step |-> None]
PollOk(cmd) == [kind |-> "ReadyOk", step |-> Some(cmd)]
PollDeadlineExceeded == [kind |-> "ReadyErr", step |-> None]

\* CommandChain::poll: the chain afterwards and the returned Poll value
ChainPollMutNoWait(c, now) ==
    IF c.cmds # << >>
    THEN [chain |-> [c EXCEPT !.cmds = Tail(@),
                              !.waiting = Some([method |-> Head(c.cmds).method,
                                                deadline |-> now + c.timeout])],
          ret |-> PollOk(Head(c.cmds))]
    ELSE [chain |-> c, ret |-> PollDone]

ChainPollMutSkip(c, now) ==
    IF IsSome(c.waiting)
    THEN IF now > Unwrap(c.waiting).deadline
         THEN [chain |-> c, ret |-> PollDeadlineExceeded]
         ELSE [chain |-> c, ret |-> PollPending]
    ELSE IF Len(c.cmds) >= 2
         THEN [chain |-> [c EXCEPT !.cmds = Tail(Tail(@)),
                                   !.waiting = Some([method |-> c.cmds[2].method,
                                                     deadline |-> now + c.timeout])],
               ret |-> PollOk(c.cmds[2])]
         ELSE [chain |-> [c EXCEPT !.cmds = << >>], ret |-> PollDone]

ChainPollMutKeepWaiting(c, now) ==
    IF IsSome(c.waiting)
    THEN IF now > Unwrap(c.waiting).deadline
         THEN [chain |-> c, ret |-> PollDeadlineExceeded]
         ELSE [chain |-> c, ret |-> PollPending]
    ELSE IF c.cmds # << >>
         THEN [chain |-> [c EXCEPT !.cmds = Tail(@)],
               ret |-> PollOk(Head(c.cmds))]
         ELSE [chain |-> c, ret |-> PollDone]

ChainPollMutNotStrict(c, now) ==
    IF IsSome(c.waiting)
    THEN IF now >= Unwrap(c.waiting).deadline
         THEN [chain |-> c, ret |-> PollDeadlineExceeded]
         ELSE [chain |-> c, ret |-> PollPending]
    ELSE IF c.cmds # << >>
         THEN [chain |-> [c EXCEPT !.cmds = Tail(@),
                                   !.waiting = Some([method |-> Head(c.cmds).method,
                                                     deadline |-> now + c.timeout])],
               ret |-> PollOk(Head(c.cmds))]
         ELSE [chain |-> c, ret |-> PollDone]

ChainPoll(c, now) ==
    IF IsSome(c.waiting)
    THEN IF now > Unwrap(c.waiting).deadline
         THEN [chain |-> c, ret |-> PollDeadlineExceeded]
         ELSE [chain |-> c, ret |-> PollPending]
    ELSE IF c.cmds # << >>
         THEN [chain |-> [c EXCEPT !.cmds = Tail(@),
                                   !.waiting = Some([method |-> Head(c.cmds).method,
                                                     deadline |-> now + c.timeout])],
               ret |-> PollOk(Head(c.cmds))]
         ELSE [chain |-> c, ret |-> PollDone]

Ret(op, arg, val) == [op |-> op, arg |-> arg, val |-> val]
BoolRet(b) == [kind |-> IF b THEN "true" ELSE "false", step |-> None]

\* ---------------------------------------------------------------------------
\* FrameManager  (src/src/handler/frame.rs)
\* ---------------------------------------------------------------------------
\* number of goto / navigate_frame calls explored
MaxNavs == 2
\* number of frame events explored
MaxEvents == 2
\* how far behind Instant::now() the `now` argument of FrameManager::poll may be
MaxSkew == 1
\* number of Page.getFrameTree snapshots explored
MaxTrees == 2

FrameIds == { "F", "C", "G" }
LoaderIds == { "L0", "L1" }
LifecycleNames == { "init", "DOMContentLoaded", "load" }
Fragments == { None, Some("#x") }
OptionOf(S) == { None } \cup { Some(x) : x \in S }

VARIABLES
    fm,         \* the FrameManager: [main_frame, frames, timeout, pending_navigations, navigation]
    panicked,   \* an expect() failed: the task has aborted
    navStart,   \* history: the clock reading when the active navigation was started
    nextNavId,  \* the NavigationId the next goto / navigate_frame call carries
    navLog,     \* history: the navigations enqueued by navigate_frame, in order: the id,
                \* the target frame and that frame's loader id at the call
    requested,  \* history: ids of the NavigationRequest events poll emitted, in order
    results,    \* history: the NavigationResult events poll emitted, in order
    nEvents,    \* number of frame events applied
    nTrees,     \* number of FrameTree snapshots applied
    round,      \* history: the snapshot / detach-root / replay sequence under way: the
                \* tree, the frame map its first application left, and the stage
    swapSeen    \* history: an event changed the loader id of the active navigation's
                \* frame since poll emitted that navigation's NavigationRequest

fmVars ==
    << fm, panicked, navStart, nextNavId, navLog, requested, results, nEvents, nTrees, round,
       swapSeen >>

VARIABLE
    atDeadline  \* history: what ran with now equal to the deadline: the chain's poll
                \* ("chain"), a matching received_response ("response"), the
                \* FrameManager's poll of the active navigation ("navigation")

allVars == << clock, chainVars, fmVars, atDeadline >>

\* Frame::new
FrameNew(id) ==
    [parent_frame |-> None, id |-> id, loader_id |-> None, url |-> None,
     child_frames |-> {}, name |-> None, lifecycle_events |-> {}]

\* Frame::with_parent: the new frame (the caller registers it in the parent)
FrameWithParent(id, parent) ==
    [parent_frame |-> Some(parent.id), id |-> id, loader_id |-> None, url |-> None,
     child_frames |-> {}, name |-> None, lifecycle_events |-> {}]

\* a Page.Frame payload
CdpFrame(id, parent_id, loader_id, url, url_fragment, name) ==
    [id |-> id, parent_id |-> parent_id, loader_id |-> loader_id, url |-> url,
     url_fragment |-> url_fragment, name |-> name]

\* on_frame_navigated only asks whether parent_id is present
CdpFrames ==
    { CdpFrame(id, p, l, "u", frag, Some("n")) :
        id \in FrameIds, p \in { None, Some("F") }, l \in LoaderIds, frag \in Fragments }

\* Page.lifecycleEvent payloads; the loader id is read for "init" only
LifecycleEvents ==
    { [frame_id |-> f, loader_id |-> l, name |-> n] :
        f \in FrameIds, l \in LoaderIds, n \in LifecycleNames }
    \ { e \in [frame_id : FrameIds, loader_id : { "L0" }, name : LifecycleNames] :
           e.name # "init" }

\* a Page.FrameTree payload: the frame and Option<Vec<FrameTree>>
FrameTree(frame, child_frames) == [frame |-> frame, child_frames |-> child_frames]

TreeFrame(id, parent_id) == CdpFrame(id, parent_id, "L0", "u", None, Some("n"))

\* Page.getFrameTree results: a lone root, a root with a child, a chain of
\* three, a root with two children, and a page whose root is another frame
FrameTrees ==
    { FrameTree(TreeFrame("F", None), None),
      FrameTree(TreeFrame("F", None),
                Some(<< FrameTree(TreeFrame("C", Some("F")), None) >>)),
      FrameTree(TreeFrame("F", None),
                Some(<< FrameTree(TreeFrame("C", Some("F")),
                                  Some(<< FrameTree(TreeFrame("G", Some("C")), None) >>)) >>)),
      FrameTree(TreeFrame("F", None),
                Some(<< FrameTree(TreeFrame("C", Some("F")), None),
                        FrameTree(TreeFrame("G", Some("F")), None) >>)),
      FrameTree(TreeFrame("G", None),
                Some(<< FrameTree(TreeFrame("C", Some("G")), None) >>)) }

\* Frame::navigated
FrameNavigated(f, frame) ==
    [f EXCEPT !.name = frame.name,
              !.url = Some(IF IsSome(frame.url_fragment)
                           THEN frame.url \o Unwrap(frame.url_fragment)
                           ELSE frame.url)]

\* Frame::navigated_within_url
FrameNavigatedWithinUrl(f, url) == [f EXCEPT !.url = Some(url)]

\* Frame::on_loading_stopped
FrameOnLoadingStopped(f) ==
    [f EXCEPT !.lifecycle_events = @ \cup { "DOMContentLoaded", "load" }]

\* HashMap::insert / HashMap::remove on the frame map
MapInsert(frames, id, f) ==
    [k \in DOMAIN frames \cup { id } |-> IF k = id THEN f ELSE frames[k]]
MapRemove(frames, id) ==
    [k \in DOMAIN frames \ { id } |-> frames[k]]

\* FrameManager::remove_frames_recursively: the frame map afterwards. The loop
\* over the HashSet of children visits them in an arbitrary order; the
\* resulting map does not depend on it.
RECURSIVE RemoveFramesRecursively(_, _)
RECURSIVE RemoveEach(_, _)
RemoveEach(frames, ids) ==
    IF ids = {} THEN frames
    ELSE LET child == CHOOSE c \in ids : TRUE IN
         RemoveEach(RemoveFramesRecursively(frames, child), ids \ { child })

RemoveFramesRecursively(frames, id) ==
    IF id \in DOMAIN frames
    THEN LET frame == frames[id]
             rest == RemoveEach(MapRemove(frames, id), frame.child_frames)
         IN IF IsSome(frame.parent_frame) /\ Unwrap(frame.parent_frame) \in DOMAIN rest
            THEN [rest EXCEPT ![Unwrap(frame.parent_frame)].child_frames = @ \ { frame.id }]
            ELSE rest
    ELSE frames

\* FrameManager::default
FrameManagerDefault ==
    [main_frame |-> None, frames |-> << >>, timeout |-> REQUEST_TIMEOUT,
     pending_navigations |-> << >>, navigation |-> None]

\* NavigationWatcher::until_page_load
UntilPageLoad(id, frame, loader_id) ==
    [id |-> id, expected_lifecycle |-> { "load" }, loader_id |-> loader_id,
     frame_id |-> frame, same_document_navigation |-> FALSE]

\* NavigationWatcher::on_frame_navigated_within_document
WatcherOnFrameNavigatedWithinDocument(w, frame_id) ==
    IF w.frame_id = frame_id THEN [w EXCEPT !.same_document_navigation = TRUE] ELSE w

\* FrameNavigationRequest: the NavigationId and the frameId parameter of the
\* Page.navigate request
FrameNavigationRequest(id, frameId) == [id |-> id, frameId |-> frameId]

\* FrameNavigationRequest::set_frame_id
SetFrameId(req, frame_id) ==
    IF req.frameId = None THEN [req EXCEPT !.frameId = Some(frame_id)] ELSE req

\* FrameManager::check_lifecycle
RECURSIVE CheckLifecycle(_, _, _)
CheckLifecycle(frames, watcher, frame) ==
    /\ \A ev \in watcher.expected_lifecycle : ev \in frame.lifecycle_events
    /\ \A f \in frame.child_frames :
          f \in DOMAIN frames => CheckLifecycle(frames, watcher, frames[f])

NavigationOk(kind, id) == [type |-> "NavigationResult", kind |-> kind, id |-> id, frame |-> None]
NavigationTimeout(id) == [type |-> "NavigationResult", kind |-> "Timeout", id |-> id, frame |-> None]
NavigationFrameNotFound(id, frame) ==
    [type |-> "NavigationResult", kind |-> "FrameNotFound", id |-> id, frame |-> Some(frame)]
NavigationRequest(req) ==
    [type |-> "NavigationRequest", kind |-> "Request", id |-> req.id, frame |-> req.frameId]

CheckLifecycleCompleteMutNoLoader(frames, watcher, frame) ==
    IF ~CheckLifecycle(frames, watcher, frame) THEN None
    ELSE IF watcher.same_document_navigation
         THEN Some(NavigationOk("SameDocumentNavigation", watcher.id))
    ELSE Some(NavigationOk("NewDocumentNavigation", watcher.id))

\* FrameManager::check_lifecycle_complete: Option<NavigationOk>
CheckLifecycleComplete(frames, watcher, frame) ==
    IF ~CheckLifecycle(frames, watcher, frame) THEN None
    ELSE IF frame.loader_id = watcher.loader_id /\ ~watcher.same_document_navigation THEN None
    ELSE IF watcher.same_document_navigation
         THEN Some(NavigationOk("SameDocumentNavigation", watcher.id))
    ELSE IF frame.loader_id # watcher.loader_id
         THEN Some(NavigationOk("NewDocumentNavigation", watcher.id))
    ELSE None

FramePollMutLifo(m, now, instant) ==
    IF IsSome(m.navigation)
    THEN LET watcher == Unwrap(m.navigation).watcher
             deadline == Unwrap(m.navigation).deadline
             taken == [m EXCEPT !.navigation = None]
         IN IF now > deadline
            THEN [fm |-> taken, ev |-> Some(NavigationTimeout(watcher.id))]
            ELSE IF watcher.frame_id \in DOMAIN m.frames
            THEN LET nav == CheckLifecycleComplete(m.frames, watcher, m.frames[watcher.frame_id])
                 IN IF IsSome(nav)
                    THEN [fm |-> taken, ev |-> nav]
                    ELSE [fm |-> m, ev |-> None]
            ELSE [fm |-> taken,
                  ev |-> Some(NavigationFrameNotFound(watcher.id, watcher.frame_id))]
    ELSE IF m.pending_navigations # << >>
         THEN LET n == Len(m.pending_navigations)
                  back == m.pending_navigations[n] IN
              [fm |-> [m EXCEPT !.pending_navigations = SubSeq(@, 1, n - 1),
                                !.navigation = Some([watcher |-> back.watcher,
                                                     deadline |-> instant + REQUEST_TIMEOUT])],
               ev |-> Some(NavigationRequest(back.req))]
         ELSE [fm |-> m, ev |-> None]

FramePollMutFrameFirst(m, now, instant) ==
    IF IsSome(m.navigation)
    THEN LET watcher == Unwrap(m.navigation).watcher
             deadline == Unwrap(m.navigation).deadline
             taken == [m EXCEPT !.navigation = None]
         IN IF watcher.frame_id \notin DOMAIN m.frames
            THEN [fm |-> taken,
                  ev |-> Some(NavigationFrameNotFound(watcher.id, watcher.frame_id))]
            ELSE IF now > deadline
            THEN [fm |-> taken, ev |-> Some(NavigationTimeout(watcher.id))]
            ELSE LET nav == CheckLifecycleComplete(m.frames, watcher, m.frames[watcher.frame_id])
                 IN IF IsSome(nav)
                    THEN [fm |-> taken, ev |-> nav]
                    ELSE [fm |-> m, ev |-> None]
    ELSE IF m.pending_navigations # << >>
         THEN LET head == Head(m.pending_navigations) IN
              [fm |-> [m EXCEPT !.pending_navigations = Tail(@),
                                !.navigation = Some([watcher |-> head.watcher,
                                                     deadline |-> instant + REQUEST_TIMEOUT])],
               ev |-> Some(NavigationRequest(head.req))]
         ELSE [fm |-> m, ev |-> None]

FramePollMutMissingAsTimeout(m, now, instant) ==
    IF IsSome(m.navigation)
    THEN LET watcher == Unwrap(m.navigation).watcher
             deadline == Unwrap(m.navigation).deadline
             taken == [m EXCEPT !.navigation = None]
         IN IF now > deadline
            THEN [fm |-> taken, ev |-> Some(NavigationTimeout(watcher.id))]
            ELSE IF watcher.frame_id \in DOMAIN m.frames
            THEN LET nav == CheckLifecycleComplete(m.frames, watcher, m.frames[watcher.frame_id])
                 IN IF IsSome(nav)
                    THEN [fm |-> taken, ev |-> nav]
                    ELSE [fm |-> m, ev |-> None]
            ELSE [fm |-> taken, ev |-> Some(NavigationTimeout(watcher.id))]
    ELSE IF m.pending_navigations # << >>
         THEN LET head == Head(m.pending_navigations) IN
              [fm |-> [m EXCEPT !.pending_navigations = Tail(@),
                                !.navigation = Some([watcher |-> head.watcher,
                                                     deadline |-> instant + REQUEST_TIMEOUT])],
               ev |-> Some(NavigationRequest(head.req))]
         ELSE [fm |-> m, ev |-> None]

\* FrameManager::poll(now), with `instant` the reading of Instant::now() inside
\* it: the manager afterwards and the returned Option<FrameEvent>
FramePoll(m, now, instant) ==
    IF IsSome(m.navigation)
    THEN LET watcher == Unwrap(m.navigation).watcher
             deadline == Unwrap(m.navigation).deadline
             taken == [m EXCEPT !.navigation = None]
         IN IF now > deadline
            THEN [fm |-> taken, ev |-> Some(NavigationTimeout(watcher.id))]
            ELSE IF watcher.frame_id \in DOMAIN m.frames
            THEN LET nav == CheckLifecycleComplete(m.frames, watcher, m.frames[watcher.frame_id])
                 IN IF IsSome(nav)
                    THEN [fm |-> taken, ev |-> nav]
                    ELSE [fm |-> m, ev |-> None]
            ELSE [fm |-> taken,
                  ev |-> Some(NavigationFrameNotFound(watcher.id, watcher.frame_id))]
    ELSE IF m.pending_navigations # << >>
         THEN LET head == Head(m.pending_navigations) IN
              [fm |-> [m EXCEPT !.pending_navigations = Tail(@),
                                !.navigation = Some([watcher |-> head.watcher,
                                                     deadline |-> instant + REQUEST_TIMEOUT])],
               ev |-> Some(NavigationRequest(head.req))]
         ELSE [fm |-> m, ev |-> None]

\* FrameManager::navigate_frame
NavigateFrame(m, frame_id, req) ==
    LET loader_id == IF frame_id \in DOMAIN m.frames THEN m.frames[frame_id].loader_id ELSE None
        watcher == UntilPageLoad(req.id, frame_id, loader_id)
    IN [m EXCEPT !.pending_navigations =
            Append(@, [req |-> SetFrameId(req, frame_id), watcher |-> watcher])]

\* FrameManager::goto
Goto(m, req) ==
    IF IsSome(m.main_frame) THEN NavigateFrame(m, Unwrap(m.main_frame), req) ELSE m

OnFrameAttachedMutOverwrite(m, frame_id, parent_frame_id) ==
    IF IsSome(parent_frame_id) /\ Unwrap(parent_frame_id) \in DOMAIN m.frames
    THEN LET p == Unwrap(parent_frame_id)
             parent == [m.frames[p] EXCEPT !.child_frames = @ \cup { frame_id }]
             frame == FrameWithParent(frame_id, parent)
         IN [m EXCEPT !.frames = MapInsert(MapInsert(m.frames, p, parent), frame_id, frame)]
    ELSE m

OnFrameAttachedMutOrphan(m, frame_id, parent_frame_id) ==
    IF frame_id \in DOMAIN m.frames THEN m
    ELSE IF IsSome(parent_frame_id) /\ Unwrap(parent_frame_id) \in DOMAIN m.frames
    THEN LET p == Unwrap(parent_frame_id)
             parent == [m.frames[p] EXCEPT !.child_frames = @ \cup { frame_id }]
             frame == FrameWithParent(frame_id, parent)
         IN [m EXCEPT !.frames = MapInsert(MapInsert(m.frames, p, parent), frame_id, frame)]
    ELSE [m EXCEPT !.frames = MapInsert(m.frames, frame_id, FrameNew(frame_id))]

\* FrameManager::on_frame_attached
OnFrameAttached(m, frame_id, parent_frame_id) ==
    IF frame_id \in DOMAIN m.frames THEN m
    ELSE IF IsSome(parent_frame_id) /\ Unwrap(parent_frame_id) \in DOMAIN m.frames
    THEN LET p == Unwrap(parent_frame_id)
             parent == [m.frames[p] EXCEPT !.child_frames = @ \cup { frame_id }]
             frame == FrameWithParent(frame_id, parent)
         IN [m EXCEPT !.frames = MapInsert(MapInsert(m.frames, p, parent), frame_id, frame)]
    ELSE m

OnFrameDetachedMutShallow(m, frame_id) ==
    IF frame_id \in DOMAIN m.frames
    THEN LET frame == m.frames[frame_id]
             rest == MapRemove(m.frames, frame_id)
         IN [m EXCEPT !.frames =
                IF IsSome(frame.parent_frame) /\ Unwrap(frame.parent_frame) \in DOMAIN rest
                THEN [rest EXCEPT ![Unwrap(frame.parent_frame)].child_frames =
                                      @ \ { frame.id }]
                ELSE rest]
    ELSE m

\* FrameManager::on_frame_detached
OnFrameDetached(m, frame_id) ==
    [m EXCEPT !.frames = RemoveFramesRecursively(m.frames, frame_id)]

\* FrameManager::on_frame_navigated panics at expect("Main frame is tracked.")
NavigatedPanics(m, frame) ==
    /\ frame.parent_id = None
    /\ IsSome(m.main_frame)
    /\ Unwrap(m.main_frame) \notin DOMAIN m.frames

OnFrameNavigatedMutKeepChildren(m, frame) ==
    IF IsSome(frame.parent_id)
    THEN IF frame.id \in DOMAIN m.frames
         THEN LET f == m.frames[frame.id]
                  g == FrameNavigated([f EXCEPT !.child_frames = {}], frame)
              IN [m EXCEPT !.frames = MapInsert(m.frames, frame.id, g)]
         ELSE m
    ELSE LET base ==
                 IF IsSome(m.main_frame)
                 THEN LET main == Unwrap(m.main_frame)
                          main_frame == m.frames[main]
                      IN [frames |-> MapRemove(m.frames, main),
                          f |-> [main_frame EXCEPT !.child_frames = {}, !.id = frame.id]]
                 ELSE [frames |-> m.frames, f |-> FrameNew(frame.id)]
             f == FrameNavigated(base.f, frame)
         IN [m EXCEPT !.main_frame = Some(f.id),
                      !.frames = MapInsert(base.frames, f.id, f)]

\* FrameManager::on_frame_navigated, when it does not panic
OnFrameNavigated(m, frame) ==
    IF IsSome(frame.parent_id)
    THEN IF frame.id \in DOMAIN m.frames
         THEN LET f == m.frames[frame.id]
                  rest == RemoveEach(MapRemove(m.frames, frame.id), f.child_frames)
                  g == FrameNavigated([f EXCEPT !.child_frames = {}], frame)
              IN [m EXCEPT !.frames = MapInsert(rest, frame.id, g)]
         ELSE m
    ELSE LET base ==
                 IF IsSome(m.main_frame)
                 THEN LET main == Unwrap(m.main_frame)
                          main_frame == m.frames[main]
                      IN [frames |-> RemoveEach(MapRemove(m.frames, main),
                                                main_frame.child_frames),
                          f |-> [main_frame EXCEPT !.child_frames = {}, !.id = frame.id]]
                 ELSE [frames |-> m.frames, f |-> FrameNew(frame.id)]
             f == FrameNavigated(base.f, frame)
         IN [m EXCEPT !.main_frame = Some(f.id),
                      !.frames = MapInsert(base.frames, f.id, f)]

\* FrameManager::on_frame_tree: the manager afterwards, and whether the
\* on_frame_navigated call of some node panicked (the walk stops there)
RECURSIVE OnFrameTree(_, _)
RECURSIVE OnChildTrees(_, _)
OnChildTrees(st, children) ==
    IF children = << >> \/ st.panicked THEN st
    ELSE OnChildTrees(OnFrameTree(st.fm, Head(children)), Tail(children))

OnFrameTree(m, frame_tree) ==
    LET attached == OnFrameAttached(m, frame_tree.frame.id, frame_tree.frame.parent_id) IN
    IF NavigatedPanics(attached, frame_tree.frame)
    THEN [fm |-> [attached EXCEPT !.main_frame = None], panicked |-> TRUE]
    ELSE LET navigated == [fm |-> OnFrameNavigated(attached, frame_tree.frame),
                           panicked |-> FALSE]
         IN IF IsSome(frame_tree.child_frames)
            THEN OnChildTrees(navigated, Unwrap(frame_tree.child_frames))
            ELSE navigated

\* FrameManager::on_frame_navigated_within_document
OnFrameNavigatedWithinDocument(m, frame_id, url) ==
    IF frame_id \in DOMAIN m.frames
    THEN [m EXCEPT !.frames[frame_id] = FrameNavigatedWithinUrl(@, url)]
    ELSE m

\* FrameManager::on_frame_stopped_loading
OnFrameStoppedLoading(m, frame_id) ==
    IF frame_id \in DOMAIN m.frames
    THEN [m EXCEPT !.frames[frame_id] = FrameOnLoadingStopped(@)]
    ELSE m

OnPageLifecycleEventMutNoClear(m, frame_id, loader_id, name) ==
    IF frame_id \in DOMAIN m.frames
    THEN LET frame == m.frames[frame_id]
             started == IF name = "init"
                        THEN [frame EXCEPT !.loader_id = Some(loader_id)]
                        ELSE frame
         IN [m EXCEPT !.frames[frame_id] =
                [started EXCEPT !.lifecycle_events = @ \cup { name }]]
    ELSE m

\* FrameManager::on_page_lifecycle_event
OnPageLifecycleEvent(m, frame_id, loader_id, name) ==
    IF frame_id \in DOMAIN m.frames
    THEN LET frame == m.frames[frame_id]
             started == IF name = "init"
                        THEN [frame EXCEPT !.loader_id = Some(loader_id),
                                           !.lifecycle_events = {}]
                        ELSE frame
         IN [m EXCEPT !.frames[frame_id] =
                [started EXCEPT !.lifecycle_events = @ \cup { name }]]
    ELSE m

\* ---------------------------------------------------------------------------
\* execute  (src/src/tab.rs)
\* ---------------------------------------------------------------------------
\* number of execute calls explored
MaxCalls == 2

VARIABLES
    tab,        \* the execute future and its channels: [exec, open, slot]: the await
                \* point and method of the running call, whether the command channel
                \* still has its receiver, and the oneshot reply slot
    calls       \* history: the finished execute calls, in order: the command, what was
                \* closed under it ("no", "channel", "slot"), the Response the reply
                \* slot delivered, and the outcome

tabVars == << tab, calls >>

\* commands: the method and whether serde_json::to_value(cmd) succeeds
Commands == [method : { "Page.navigate", "Runtime.evaluate" }, serializable : BOOLEAN]

\* JSON values a response may carry as `result`: one that decodes into
\* T::Response and one that does not
JsonResults == { "{frameId}", "[]" }

\* serde_json::from_value::<T::Response>
FromValue(res) ==
    IF res = "{frameId}"
    THEN [ok |-> TRUE, value |-> "Response{frameId}"]
    ELSE [ok |-> FALSE, value |-> "serde_json::Error"]

\* the Response messages the peer may send
Responses ==
    [id : { 1, 2 }, result : OptionOf(JsonResults), error : OptionOf({ "-32000" })]

\* Result<CommandResponse<T::Response>>
ExecOk(id, result, method) ==
    [kind |-> "Ok", id |-> Some(id), result |-> Some(result), method |-> Some(method),
     error |-> None]
ExecErr(error) ==
    [kind |-> "Err", id |-> None, result |-> None, method |-> None, error |-> Some(error)]

SlotIdle == [state |-> "idle", resp |-> None]
SlotWaiting == [state |-> "waiting", resp |-> None]
SlotCanceled == [state |-> "canceled", resp |-> None]
SlotFilled(resp) == [state |-> "filled", resp |-> Some(resp)]

ExecuteResolveMutErrorFirst(method, resp) ==
    IF IsSome(resp.error)
    THEN ExecErr(<< "Protocol", Unwrap(resp.error) >>)
    ELSE IF IsSome(resp.result)
    THEN LET result == FromValue(Unwrap(resp.result)) IN
         IF result.ok THEN ExecOk(resp.id, result.value, method)
         ELSE ExecErr(result.value)
    ELSE ExecErr("Empty Response")

\* execute, after rx.await returned the Response
ExecuteResolve(method, resp) ==
    IF IsSome(resp.result)
    THEN LET result == FromValue(Unwrap(resp.result)) IN
         IF result.ok THEN ExecOk(resp.id, result.value, method)
         ELSE ExecErr(result.value)
    ELSE IF IsSome(resp.error)
    THEN ExecErr(<< "Protocol", Unwrap(resp.error) >>)
    ELSE ExecErr("Empty Response")

vars == << allVars, tabVars >>

TabInit ==
    /\ tab = [exec |-> None, open |-> TRUE, slot |-> SlotIdle]
    /\ calls = << >>

Finished(cmd, closed, delivered, outcome) ==
    [cmd |-> cmd, closed |-> closed, delivered |-> delivered, outcome |-> outcome]

\* execute up to sender.send(msg): the oneshot channel is made and the command
\* serialized by CommandMessage::with_session
ExecuteStart(cmd) ==
    /\ tab.exec = None
    /\ Len(calls) < MaxCalls
    /\ IF cmd.serializable
       THEN /\ tab' = [tab EXCEPT !.exec = Some([cmd |-> cmd, pc |-> "send"])]
            /\ UNCHANGED calls
       ELSE /\ calls' = Append(calls, Finished(cmd, "no", None,
                                               ExecErr("serde_json::Error")))
            /\ UNCHANGED tab
    /\ UNCHANGED << clock, chainVars, fmVars, atDeadline >>

\* sender.send(msg).await?
ExecuteSend ==
    /\ IsSome(tab.exec)
    /\ Unwrap(tab.exec).pc = "send"
    /\ IF tab.open
       THEN /\ tab' = [tab EXCEPT !.exec = Some([Unwrap(tab.exec) EXCEPT !.pc = "recv"]),
                                  !.slot = SlotWaiting]
            /\ UNCHANGED calls
       ELSE /\ tab' = [tab EXCEPT !.exec = None]
            /\ calls' = Append(calls, Finished(Unwrap(tab.exec).cmd, "channel", None,
                                               ExecErr("SendError")))
    /\ UNCHANGED << clock, chainVars, fmVars, atDeadline >>

\* the handler answers through the reply slot: tx.send(resp)
HandlerRespond(resp) ==
    /\ tab.slot = SlotWaiting
    /\ tab' = [tab EXCEPT !.slot = SlotFilled(resp)]
    /\ UNCHANGED << clock, chainVars, fmVars, atDeadline, calls >>

\* the handler drops the reply slot without answering
HandlerDropSlot ==
    /\ tab.slot = SlotWaiting
    /\ tab' = [tab EXCEPT !.slot = SlotCanceled]
    /\ UNCHANGED << clock, chainVars, fmVars, atDeadline, calls >>

\* the receiver of the command channel is dropped
ChannelClose ==
    /\ tab.open
    /\ tab' = [tab EXCEPT !.open = FALSE]
    /\ UNCHANGED << clock, chainVars, fmVars, atDeadline, calls >>

\* rx.await? and the rest of execute
ExecuteRecv ==
    /\ IsSome(tab.exec)
    /\ Unwrap(tab.exec).pc = "recv"
    /\ tab.slot.state \in { "filled", "canceled" }
    /\ tab' = [tab EXCEPT !.exec = None, !.slot = SlotIdle]
    /\ calls' = Append(calls,
            IF tab.slot.state = "canceled"
            THEN Finished(Unwrap(tab.exec).cmd, "slot", None, ExecErr("Canceled"))
            ELSE Finished(Unwrap(tab.exec).cmd, "no", tab.slot.resp,
                          ExecuteResolve(Unwrap(tab.exec).cmd.method,
                                         Unwrap(tab.slot.resp))))
    /\ UNCHANGED << clock, chainVars, fmVars, atDeadline >>

ExecNext ==
    \/ \E cmd \in Commands : ExecuteStart(cmd)
    \/ ExecuteSend
    \/ \E resp \in Responses : HandlerRespond(resp)
    \/ HandlerDropSlot
    \/ ChannelClose
    \/ ExecuteRecv

ChainInit ==
    /\ \E cmds \in InitChains :
          /\ chain = ChainNew(cmds)
          /\ enqueued = cmds
    /\ chainRet = Ret("new", "", PollPending)
    /\ issued = << >>
    /\ unacked = << >>
    /\ timeouts = 0
    /\ missed = FALSE

\* a caller queues another request
PushBack(method, params) ==
    /\ Len(enqueued) < MaxCmds
    /\ chain' = ChainPushBack(chain, method, params)
    /\ enqueued' = Append(enqueued, Cmd(method, params))
    /\ chainRet' = Ret("push_back", method, PollPending)
    /\ UNCHANGED << clock, issued, unacked, timeouts, missed, fmVars, atDeadline, tabVars >>

\* a response with the given method identifier arrives
ReceivedResponse(identifier) ==
    LET r == ChainReceivedResponse(chain, identifier) IN
    /\ chain' = r.chain
    /\ chainRet' = Ret("received_response", identifier, BoolRet(r.ret))
    /\ unacked' = IF r.ret THEN RemoveFirst(unacked, identifier) ELSE unacked
    /\ atDeadline' = IF r.ret /\ clock = Unwrap(chain.waiting).deadline
                      THEN atDeadline \cup { "response" }
                      ELSE atDeadline
    /\ UNCHANGED << clock, enqueued, issued, timeouts, missed, fmVars, tabVars >>

\* the driver polls the chain with the current instant
ChainPollStep ==
    LET r == ChainPoll(chain, clock) IN
    /\ chain' = r.chain
    /\ chainRet' = Ret("poll", "", r.ret)
    /\ issued' = IF r.ret.kind = "ReadyOk" THEN Append(issued, Unwrap(r.ret.step)) ELSE issued
    /\ unacked' = IF r.ret.kind = "ReadyOk" THEN Append(unacked, Unwrap(r.ret.step)) ELSE unacked
    /\ timeouts' = IF r.ret.kind = "ReadyErr" THEN 1 ELSE timeouts
    /\ atDeadline' = IF IsSome(chain.waiting) /\ clock = Unwrap(chain.waiting).deadline
                      THEN atDeadline \cup { "chain" }
                      ELSE atDeadline
    /\ UNCHANGED << clock, enqueued, missed, fmVars, tabVars >>

\* the monotonic clock advances
ChainTick ==
    /\ clock < MaxTime
    /\ clock' = clock + 1
    /\ missed' = (missed \/ (IsSome(chain.waiting) /\ clock + 1 > Unwrap(chain.waiting).deadline))
    /\ UNCHANGED << chain, chainRet, enqueued, issued, unacked, timeouts, fmVars, atDeadline,
                    tabVars >>

ChainNext ==
    \/ \E m \in PushMethods : PushBack(m, "{}")
    \/ \E m \in Methods : ReceivedResponse(m)
    \/ ChainPollStep
    \/ ChainTick

\* ---------------------------------------------------------------------------
\* The FrameManager's callers: frame events, goto, poll
\* ---------------------------------------------------------------------------
\* One main frame F that finished loading document L0 (scenarios S3, S4).
LoadedMainFrame ==
    [main_frame |-> Some("F"),
     frames |-> [k \in { "F" } |->
        [parent_frame |-> None, id |-> "F", loader_id |-> Some("L0"), url |-> Some("u"),
         child_frames |-> {}, name |-> Some("n"), lifecycle_events |-> { "init", "load" }]],
     timeout |-> REQUEST_TIMEOUT, pending_navigations |-> << >>, navigation |-> None]

\* The same with a child frame C that was just attached (Frame::with_parent).
LoadedWithChild ==
    [LoadedMainFrame EXCEPT !.frames =
        [k \in { "F", "C" } |->
            IF k = "F"
            THEN [LoadedMainFrame.frames["F"] EXCEPT !.child_frames = { "C" }]
            ELSE FrameWithParent("C", LoadedMainFrame.frames["F"])]]

\* States the exploration starts from: the Default manager, and two states the
\* Default manager reaches by frame events alone.
FrameInits == { FrameManagerDefault, LoadedMainFrame, LoadedWithChild }

FrameInit ==
    /\ fm \in FrameInits
    /\ panicked = FALSE
    /\ navStart = None
    /\ nextNavId = 0
    /\ navLog = << >>
    /\ requested = << >>
    /\ results = << >>
    /\ nEvents = 0
    /\ nTrees = 0
    /\ round = None
    /\ swapSeen = FALSE
    /\ atDeadline = {}

\* the loader id the map holds for a frame id
LoaderOf(m, frame_id) ==
    IF frame_id \in DOMAIN m.frames THEN m.frames[frame_id].loader_id ELSE None

\* swapSeen after an event that leaves the manager m
SwapSeenAfter(m) ==
    \/ swapSeen
    \/ /\ IsSome(fm.navigation)
       /\ LoaderOf(m, Unwrap(fm.navigation).watcher.frame_id)
             # LoaderOf(fm, Unwrap(fm.navigation).watcher.frame_id)

\* what every frame event leaves alone
EventFrame ==
    /\ ~panicked
    /\ nEvents < MaxEvents
    /\ nEvents' = nEvents + 1
    /\ UNCHANGED << clock, chainVars, navStart, nextNavId, navLog, requested, results, nTrees,
                    swapSeen, atDeadline, tabVars >>

FrameAttachedEvent(frame_id, parent_frame_id) ==
    /\ EventFrame
    /\ fm' = OnFrameAttached(fm, frame_id, parent_frame_id)
    /\ round' = None
    /\ UNCHANGED panicked

FrameDetachedEvent(frame_id) ==
    /\ EventFrame
    /\ fm' = OnFrameDetached(fm, frame_id)
    /\ round' = IF /\ IsSome(round)
                    /\ Unwrap(round).stage = "snapshot"
                    /\ Unwrap(round).tree.frame.id = frame_id
                 THEN Some([Unwrap(round) EXCEPT !.stage = "detached"])
                 ELSE None
    /\ UNCHANGED panicked

FrameNavigatedEvent(frame) ==
    /\ EventFrame
    /\ IF NavigatedPanics(fm, frame)
       THEN /\ panicked' = TRUE
            /\ fm' = [fm EXCEPT !.main_frame = None]
       ELSE /\ fm' = OnFrameNavigated(fm, frame)
            /\ UNCHANGED panicked
    /\ round' = None

\* the Page.getFrameTree response (or a later snapshot) is applied
FrameTreeEvent(frame_tree) ==
    LET r == OnFrameTree(fm, frame_tree) IN
    /\ ~panicked
    /\ nTrees < MaxTrees
    /\ nTrees' = nTrees + 1
    /\ fm' = r.fm
    /\ panicked' = r.panicked
    /\ round' = IF fm.frames = << >> /\ fm.main_frame = None
                 THEN Some([tree |-> frame_tree, frames |-> r.fm.frames,
                            stage |-> "snapshot"])
                 ELSE IF /\ IsSome(round)
                         /\ Unwrap(round).stage = "detached"
                         /\ Unwrap(round).tree = frame_tree
                 THEN Some([Unwrap(round) EXCEPT !.stage = "replayed"])
                 ELSE None
    /\ UNCHANGED << clock, chainVars, navStart, nextNavId, navLog, requested, results,
                    nEvents, swapSeen, atDeadline, tabVars >>

NavigatedWithinDocumentEvent(frame_id, url) ==
    /\ EventFrame
    /\ fm' = OnFrameNavigatedWithinDocument(fm, frame_id, url)
    /\ round' = None
    /\ UNCHANGED panicked

FrameStoppedLoadingEvent(frame_id) ==
    /\ EventFrame
    /\ fm' = OnFrameStoppedLoading(fm, frame_id)
    /\ round' = None
    /\ UNCHANGED panicked

LifecycleEvent(frame_id, loader_id, name) ==
    /\ EventFrame
    /\ fm' = OnPageLifecycleEvent(fm, frame_id, loader_id, name)
    /\ round' = None
    /\ UNCHANGED panicked

\* a caller navigates the page: goto(FrameNavigationRequest::new(id, request))
GotoCall ==
    /\ ~panicked
    /\ nextNavId < MaxNavs
    /\ fm' = Goto(fm, FrameNavigationRequest(nextNavId, None))
    /\ navLog' = IF IsSome(fm.main_frame)
                 THEN LET target == Unwrap(fm.main_frame) IN
                      Append(navLog, [id |-> nextNavId, frame |-> target,
                                      loader |-> IF target \in DOMAIN fm.frames
                                                 THEN fm.frames[target].loader_id
                                                 ELSE None])
                 ELSE navLog
    /\ nextNavId' = nextNavId + 1
    /\ UNCHANGED << clock, chainVars, panicked, navStart, requested, results, nEvents,
                    nTrees, round, swapSeen, atDeadline, tabVars >>

\* the handler polls with the instant `now` it read at most MaxSkew ticks ago
PollStep(now) ==
    LET r == FramePoll(fm, now, clock)
        isRequest == IsSome(r.ev) /\ Unwrap(r.ev).type = "NavigationRequest"
        isResult == IsSome(r.ev) /\ Unwrap(r.ev).type = "NavigationResult"
    IN
    /\ ~panicked
    /\ fm' = r.fm
    /\ requested' = IF isRequest THEN Append(requested, Unwrap(r.ev).id) ELSE requested
    /\ results' = IF isResult THEN Append(results, Unwrap(r.ev)) ELSE results
    /\ navStart' = IF isRequest THEN Some(clock) ELSE IF isResult THEN None ELSE navStart
    /\ atDeadline' = IF IsSome(fm.navigation) /\ now = Unwrap(fm.navigation).deadline
                      THEN atDeadline \cup { "navigation" }
                      ELSE atDeadline
    /\ UNCHANGED << clock, chainVars, panicked, nextNavId, navLog, nEvents, nTrees, round,
                    tabVars >>

PollCall(now) == PollStep(now) /\ UNCHANGED swapSeen

\* the same poll, observed: a new request or a result starts swapSeen afresh
PollObserved(now) ==
    /\ PollStep(now)
    /\ swapSeen' = IF requested' # requested \/ results' # results THEN FALSE ELSE swapSeen

\* the same Page.lifecycleEvent, observed: swapSeen records a change of the
\* active navigation's loader id
LifecycleObserved(frame_id, loader_id, name) ==
    /\ ~panicked
    /\ nEvents < MaxEvents
    /\ nEvents' = nEvents + 1
    /\ fm' = OnPageLifecycleEvent(fm, frame_id, loader_id, name)
    /\ round' = None
    /\ swapSeen' = SwapSeenAfter(fm')
    /\ UNCHANGED << clock, chainVars, panicked, navStart, nextNavId, navLog, requested,
                    results, nTrees, atDeadline, tabVars >>

\* the instants a poll at the current clock reading may be given
PollInstants == { t \in (clock - MaxSkew)..clock : t >= 0 }

\* the monotonic clock advances
Tick ==
    /\ clock < MaxTime
    /\ clock' = clock + 1
    /\ UNCHANGED << chainVars, fmVars, atDeadline, tabVars >>

FrameNext ==
    \/ \E f \in FrameIds, p \in OptionOf(FrameIds) : FrameAttachedEvent(f, p)
    \/ \E f \in FrameIds : FrameDetachedEvent(f)
    \/ \E frame \in CdpFrames : FrameNavigatedEvent(frame)
    \/ \E f \in FrameIds : NavigatedWithinDocumentEvent(f, "u#x")
    \/ \E f \in FrameIds : FrameStoppedLoadingEvent(f)
    \/ \E e \in LifecycleEvents : LifecycleEvent(e.frame_id, e.loader_id, e.name)
    \/ GotoCall
    \/ \E now \in PollInstants : PollCall(now)
    \/ Tick

ChainSpecInit == clock = 0 /\ ChainInit /\ FrameInit /\ TabInit /\ fm = FrameManagerDefault
ChainSpec == ChainSpecInit /\ [][ChainNext]_vars

FrameSpecInit ==
    clock = 0 /\ FrameInit /\ ChainInit /\ TabInit /\ chain = ChainNew(InitCommands)
FrameSpec == FrameSpecInit /\ [][FrameNext]_vars

\* The frame events alone, with the FrameTree snapshots: the frame tree the
\* FrameManager tracks.
TreeNext ==
    \/ \E f \in FrameIds, p \in OptionOf(FrameIds) : FrameAttachedEvent(f, p)
    \/ \E f \in FrameIds : FrameDetachedEvent(f)
    \/ \E frame \in CdpFrames : FrameNavigatedEvent(frame)
    \/ \E f \in FrameIds : NavigatedWithinDocumentEvent(f, "u#x")
    \/ \E f \in FrameIds : FrameStoppedLoadingEvent(f)
    \/ \E e \in LifecycleEvents : LifecycleEvent(e.frame_id, e.loader_id, e.name)
    \/ \E t \in FrameTrees : FrameTreeEvent(t)

TreeSpec == FrameSpecInit /\ [][TreeNext]_vars

\* Everything the handler does with the FrameManager: frame events, FrameTree
\* snapshots, goto and poll.
FullNext ==
    \/ FrameNext
    \/ \E t \in FrameTrees : FrameTreeEvent(t)

FullSpec == FrameSpecInit /\ [][FullNext]_vars

\* A command chain and the navigations of the loaded main frame on one clock:
\* the chain is polled and acknowledged while gotos are queued and polled,
\* with the events that start (init, loader L1) and finish a document load.
DeadlineNext ==
    \/ \E m \in Methods : ReceivedResponse(m)
    \/ ChainPollStep
    \/ ChainTick
    \/ LifecycleEvent("F", "L1", "init")
    \/ FrameStoppedLoadingEvent("F")
    \/ GotoCall
    \/ \E now \in PollInstants : PollCall(now)

\* a chain of two steps with the same method, and the loaded main frame
DeadlineSpecInit ==
    /\ clock = 0
    /\ ChainInit
    /\ chain.cmds = << Cmd("Page.enable", "{}"), Cmd("Page.enable", "{}") >>
    /\ FrameInit
    /\ TabInit
    /\ fm = LoadedMainFrame
DeadlineSpec == DeadlineSpecInit /\ [][DeadlineNext]_vars

\* The navigations of the loaded main frame with the lifecycle events of its
\* document loads, observed for loader changes.
SwapNext ==
    \/ \E e \in LifecycleEvents : LifecycleObserved(e.frame_id, e.loader_id, e.name)
    \/ GotoCall
    \/ \E now \in PollInstants : PollObserved(now)
    \/ Tick

SwapSpecInit == FrameSpecInit /\ fm = LoadedMainFrame
SwapSpec == SwapSpecInit /\ [][SwapNext]_vars

\* The execute calls of a tab whose handler answers, drops the reply slot
\* or goes away.
ExecSpecInit == FrameSpecInit /\ fm = FrameManagerDefault
ExecSpec == ExecSpecInit /\ [][ExecNext]_vars

\* Time advances while a navigation waits for its deadline.
LiveTick ==
    /\ IsSome(fm.navigation)
    /\ clock <= Unwrap(fm.navigation).deadline
    /\ clock' = clock + 1
    /\ UNCHANGED << chainVars, fmVars, atDeadline, tabVars >>

Polls == \E now \in PollInstants : PollCall(now)

LiveNext ==
    \/ \E f \in FrameIds, p \in OptionOf(FrameIds) : FrameAttachedEvent(f, p)
    \/ \E f \in FrameIds : FrameDetachedEvent(f)
    \/ \E frame \in CdpFrames : FrameNavigatedEvent(frame)
    \/ \E f \in FrameIds : NavigatedWithinDocumentEvent(f, "u#x")
    \/ \E f \in FrameIds : FrameStoppedLoadingEvent(f)
    \/ \E e \in LifecycleEvents : LifecycleEvent(e.frame_id, e.loader_id, e.name)
    \/ GotoCall
    \/ Polls
    \/ LiveTick

\* The handler's loop keeps polling and the clock keeps running.
LiveSpec == FrameSpecInit /\ [][LiveNext]_vars /\ WF_vars(Polls) /\ WF_vars(LiveTick)

\* ---------------------------------------------------------------------------
\* Properties of the CommandChain
\* ---------------------------------------------------------------------------

\* C1: at most one step is in flight: poll never hands out a new step while a
\* step it handed out earlier has not been matched by received_response.
C1_AtMostOneInFlight == Len(unacked) <= 1

\* a poll found a step in flight, with more queued behind it, and held back
C1_Witness ==
    /\ chainRet.op = "poll" /\ chainRet.val.kind = "Pending"
    /\ Len(unacked) = 1 /\ Len(issued) >= 2
    /\ chain.cmds # << >>

IsPrefix(s, t) == Len(s) <= Len(t) /\ s = SubSeq(t, 1, Len(s))

\* C2: while every step is acknowledged before the clock passes its deadline,
\* poll never reports DeadlineExceeded, the steps it has issued are the queued
\* pairs in queue order, each once, and poll answers Ready(None) exactly when
\* all of them have been issued and acknowledged.
C2_InOrderNoTimeout ==
    ~missed =>
        /\ timeouts = 0
        /\ IsPrefix(issued, enqueued)
        /\ chainRet.op = "poll" =>
              (chainRet.val.kind = "ReadyNone" <=> (issued = enqueued /\ unacked = << >>))

\* the init chain plus one pushed command ran to Ready(None)
C2_Witness ==
    /\ ~missed
    /\ chainRet.op = "poll" /\ chainRet.val.kind = "ReadyNone"
    /\ IsPrefix(InitCommands, issued)
    /\ Len(issued) = Len(InitCommands) + 1

\* C3: once poll has reported DeadlineExceeded, no later poll issues a further
\* step from the queue.
C3_StalledIsTerminal == [][timeouts > 0 => issued' = issued]_vars

\* C4: received_response(method) returns true and clears the in-flight step
\* exactly when a step is in flight and has that method; otherwise it returns
\* false and changes neither the queue nor the in-flight step and deadline.
C4_ReceivedResponse ==
    [][\A m \in Methods :
        ReceivedResponse(m) =>
            LET match == IsSome(chain.waiting) /\ Unwrap(chain.waiting).method = m IN
            /\ chainRet'.val = BoolRet(match)
            /\ match => (chain'.waiting = None /\ chain'.cmds = chain.cmds)
            /\ ~match => chain' = chain]_vars

\* a response for another method arrived while a step was in flight
C4_Witness ==
    /\ chainRet.op = "received_response" /\ chainRet.val = BoolRet(FALSE)
    /\ IsSome(chain.waiting)
    /\ Unwrap(chain.waiting).method # chainRet.arg

\* C5: the in-flight slot is set iff a step was returned by poll and not yet
\* acknowledged, and a poll answers Ready(None) iff the queue is empty and
\* nothing is in flight.
C5_InFlightIffUnacked ==
    /\ IsSome(chain.waiting) <=> unacked # << >>
    /\ IsSome(chain.waiting) => unacked = << [method |-> Unwrap(chain.waiting).method,
                                              params |-> unacked[1].params] >>
    /\ chainRet.op = "poll" =>
          (chainRet.val.kind = "ReadyNone" <=> (chain.cmds = << >> /\ chain.waiting = None))

\* the second step is in flight after the first was acknowledged
C5_Witness ==
    /\ IsSome(chain.waiting) /\ Len(issued) = 2 /\ Len(unacked) = 1
    /\ chainRet.op = "poll" /\ chainRet.val.kind = "ReadyOk"

\* ---------------------------------------------------------------------------
\* Properties of the FrameManager's navigation protocol
\* ---------------------------------------------------------------------------
Ids(seq) == [i \in 1..Len(seq) |-> seq[i].id]
Last(seq) == seq[Len(seq)]

\* C6: at most one navigation is active, and navigations start in FIFO order:
\* the NavigationRequest events follow the order of the goto calls, and a
\* request is emitted only once every request before it has its result.
C6_OneActiveFifo ==
    /\ IsPrefix(requested, Ids(navLog))
    /\ IsPrefix(Ids(results), requested)
    /\ Len(requested) <= Len(results) + 1
    /\ IsSome(fm.navigation) <=> Len(requested) = Len(results) + 1
    /\ IsSome(fm.navigation) => Unwrap(fm.navigation).watcher.id = Last(requested)

\* the second navigation was started after the first one was resolved
C6_Witness ==
    /\ Len(navLog) = 2 /\ Len(requested) = 2 /\ Len(results) = 1
    /\ IsSome(fm.navigation)

\* C7: every goto call is eventually answered by a NavigationResult carrying
\* its NavigationId.
C7_EveryGotoCompletes ==
    \A id \in 0..(MaxNavs - 1) :
        [](nextNavId > id => <>(\E i \in 1..Len(results) : results[i].id = id))

\* the frames whose parent chain reaches id, id included
RECURSIVE InSubtree(_, _, _, _)
InSubtree(frames, id, k, fuel) ==
    \/ k = id
    \/ /\ fuel > 0
       /\ k \in DOMAIN frames
       /\ IsSome(frames[k].parent_frame)
       /\ InSubtree(frames, id, Unwrap(frames[k].parent_frame), fuel - 1)

Subtree(frames, id) ==
    { k \in DOMAIN frames : InSubtree(frames, id, k, Cardinality(FrameIds)) }

AllLoaded(frames, id) ==
    \A k \in Subtree(frames, id) : "load" \in frames[k].lifecycle_events

LoaderAtGoto(id) == (CHOOSE n \in { navLog[i] : i \in 1..Len(navLog) } : n.id = id).loader

\* C8: poll reports Ok(NewDocumentNavigation(id)) only for the active watcher,
\* and only when "load" is recorded for the target frame and every descendant
\* in the map and the target's loader id differs from the one recorded at
\* goto; before the deadline it reports it whenever that holds, and leaves the
\* navigation pending as long as the loader id is unchanged.
C8_NewDocument ==
    [][\A now \in PollInstants :
        PollCall(now) =>
            LET newDoc == /\ results' # results
                          /\ Last(results').kind = "NewDocumentNavigation"
                active == IsSome(fm.navigation)
                w == Unwrap(fm.navigation).watcher
                inTime == now <= Unwrap(fm.navigation).deadline
                present == w.frame_id \in DOMAIN fm.frames
                swapped == fm.frames[w.frame_id].loader_id # LoaderAtGoto(w.id)
            IN
            /\ newDoc => /\ active /\ present
                         /\ Last(results').id = w.id
                         /\ AllLoaded(fm.frames, w.frame_id)
                         /\ swapped
            /\ (active /\ inTime /\ present /\ AllLoaded(fm.frames, w.frame_id) /\ swapped)
                  => newDoc
            /\ (active /\ inTime /\ present /\ ~swapped)
                  => (results' = results /\ fm' = fm)]_vars

\* scenario S3: goto on the loaded main frame F (loader L0), then init with L1
\* and load: the poll reported NewDocumentNavigation for it
C8_Witness ==
    /\ Len(navLog) = 1 /\ navLog[1].frame = "F" /\ navLog[1].loader = Some("L0")
    /\ results = << NavigationOk("NewDocumentNavigation", navLog[1].id) >>
    /\ "F" \in DOMAIN fm.frames
    /\ fm.frames["F"].loader_id = Some("L1")
    /\ "load" \in fm.frames["F"].lifecycle_events

\* C9: a NavigatedWithinDocument event for the frame of the active, pending
\* watcher sets the watcher's same_document flag and leaves the frame's
\* loader id alone.
C9_SameDocumentFlag ==
    [][\A f \in FrameIds :
        ( /\ NavigatedWithinDocumentEvent(f, "u#x")
          /\ IsSome(fm.navigation)
          /\ Unwrap(fm.navigation).watcher.frame_id = f
          /\ f \in DOMAIN fm.frames )
        => /\ IsSome(fm'.navigation)
           /\ Unwrap(fm'.navigation).watcher.same_document_navigation
           /\ fm'.frames[f].loader_id = fm.frames[f].loader_id]_vars

\* C10: a poll with now past the active navigation's deadline reports
\* Timeout with that navigation's id and clears it, whatever the frame map
\* holds; the deadline is REQUEST_TIMEOUT after the clock reading at which
\* the navigation was started.
C10_NavigationTimeout ==
    [][\A now \in PollInstants :
        ( /\ PollCall(now)
          /\ IsSome(fm.navigation)
          /\ \/ now > Unwrap(fm.navigation).deadline
             \/ now > Unwrap(navStart) + REQUEST_TIMEOUT )
        => /\ results' = Append(results,
                            NavigationTimeout(Unwrap(fm.navigation).watcher.id))
           /\ fm'.navigation = None]_vars

\* scenario S5: goto, no frame events, the clock runs past the deadline
C10_Witness ==
    /\ nEvents = 0
    /\ Len(navLog) >= 1
    /\ results = << NavigationTimeout(navLog[1].id) >>

\* C11: a poll at or before the deadline that finds the active navigation's
\* target frame missing from the frame map reports FrameNotFound with that
\* navigation's id and frame, and clears the active navigation.
C11_FrameNotFound ==
    [][\A now \in PollInstants :
        ( /\ PollCall(now)
          /\ IsSome(fm.navigation)
          /\ now <= Unwrap(fm.navigation).deadline
          /\ Unwrap(fm.navigation).watcher.frame_id \notin DOMAIN fm.frames )
        => LET w == Unwrap(fm.navigation).watcher IN
           /\ results' = Append(results, NavigationFrameNotFound(w.id, w.frame_id))
           /\ fm'.navigation = None]_vars

\* goto on F, the request went out, F was detached before any lifecycle
\* event, and the next poll reported FrameNotFound
C11_Witness ==
    /\ nEvents = 1
    /\ Len(navLog) >= 1
    /\ fm.frames = << >>
    /\ results = << NavigationFrameNotFound(navLog[1].id, "F") >>

\* ---------------------------------------------------------------------------
\* Properties of the frame tree
\* ---------------------------------------------------------------------------
\* k's parent chain, followed for at most `fuel` links, reaches id
RECURSIVE HasAncestor(_, _, _, _)
HasAncestor(frames, k, id, fuel) ==
    /\ fuel > 0
    /\ k \in DOMAIN frames
    /\ IsSome(frames[k].parent_frame)
    /\ \/ Unwrap(frames[k].parent_frame) = id
       \/ HasAncestor(frames, Unwrap(frames[k].parent_frame), id, fuel - 1)

\* C12: after any sequence of frame events and FrameTree snapshots, every
\* frame with a parent has that parent in the map and is listed in the
\* parent's child set, every id in a child set is in the map with that frame
\* as its parent, and no frame is its own ancestor.
C12_TreeConsistent ==
    /\ \A k \in DOMAIN fm.frames :
          IsSome(fm.frames[k].parent_frame) =>
              /\ Unwrap(fm.frames[k].parent_frame) \in DOMAIN fm.frames
              /\ k \in fm.frames[Unwrap(fm.frames[k].parent_frame)].child_frames
    /\ \A k \in DOMAIN fm.frames :
          \A c \in fm.frames[k].child_frames :
              /\ c \in DOMAIN fm.frames
              /\ fm.frames[c].parent_frame = Some(k)
    /\ \A k \in DOMAIN fm.frames :
          ~HasAncestor(fm.frames, k, k, Cardinality(FrameIds))

\* a tree of three generations was built and an inner frame navigated, which
\* dropped its subtree: F keeps C, C lost G
C12_Witness ==
    /\ nEvents >= 1 /\ nTrees >= 1
    /\ DOMAIN fm.frames = { "F", "C" }
    /\ fm.frames["F"].child_frames = { "C" }
    /\ fm.frames["C"].child_frames = {}
    /\ fm.frames["C"].parent_frame = Some("F")

\* the frames of the map that have no parent
Roots(frames) == { k \in DOMAIN frames : frames[k].parent_frame = None }

\* At most one frame of the map is parentless, it is the one main_frame
\* names, and the frame main_frame names has no parent.
MainFrameIsRoot ==
    /\ Cardinality(Roots(fm.frames)) <= 1
    /\ \A k \in Roots(fm.frames) : fm.main_frame = Some(k)
    /\ (IsSome(fm.main_frame) /\ Unwrap(fm.main_frame) \in DOMAIN fm.frames)
          => fm.frames[Unwrap(fm.main_frame)].parent_frame = None

\* C13: in every reachable state there is at most one main frame and the
\* frame main_frame names has no parent, and after every top-level
\* FrameNavigated (no parent_id) main_frame is the navigated frame's id.
C13_MainFrame ==
    /\ []MainFrameIsRoot
    /\ [][\A frame \in CdpFrames :
            (FrameNavigatedEvent(frame) /\ frame.parent_id = None)
                => fm'.main_frame = Some(frame.id)]_vars

\* check_lifecycle_complete returns a result for the active watcher
Complete(m) ==
    /\ IsSome(m.navigation)
    /\ Unwrap(m.navigation).watcher.frame_id \in DOMAIN m.frames
    /\ IsSome(CheckLifecycleComplete(m.frames, Unwrap(m.navigation).watcher,
                                     m.frames[Unwrap(m.navigation).watcher.frame_id]))

\* C14: the completion predicate is monotonic: once check_lifecycle_complete
\* returns a result for the active watcher, it still returns one after every
\* further step that leaves that watcher active and its frame in the map.
C14_CompletionMonotonic ==
    [][( /\ Complete(fm)
         /\ fm'.navigation = fm.navigation
         /\ Unwrap(fm.navigation).watcher.frame_id \in DOMAIN fm'.frames )
       => Complete(fm')]_vars

\* C15: immediately after a LifecycleEvent "init" with loader id L is applied
\* to a frame f of the map, f.loader_id = L and f.lifecycle_events is empty.
C15_InitClears ==
    [][\A e \in LifecycleEvents :
        ( /\ LifecycleEvent(e.frame_id, e.loader_id, e.name)
          /\ e.name = "init"
          /\ e.frame_id \in DOMAIN fm.frames )
        => /\ fm'.frames[e.frame_id].loader_id = Some(e.loader_id)
           /\ fm'.frames[e.frame_id].lifecycle_events = {}]_vars

\* C15, amended: immediately after a LifecycleEvent "init" with loader id L
\* is applied to a frame f of the map, f.loader_id = L and
\* f.lifecycle_events = {"init"}: the set is cleared and the event's own name
\* is recorded.
C15_InitRestarts ==
    [][\A e \in LifecycleEvents :
        ( /\ LifecycleEvent(e.frame_id, e.loader_id, e.name)
          /\ e.name = "init"
          /\ e.frame_id \in DOMAIN fm.frames )
        => /\ fm'.frames[e.frame_id].loader_id = Some(e.loader_id)
           /\ fm'.frames[e.frame_id].lifecycle_events = { "init" }]_vars

\* the loaded main frame (loader L0, "load" recorded) received init with L1
C15_Witness ==
    /\ nEvents = 1 /\ nTrees = 0
    /\ "F" \in DOMAIN fm.frames
    /\ fm.frames["F"].loader_id = Some("L1")
    /\ fm.frames["F"].lifecycle_events = { "init" }

\* C16: FrameAttached is idempotent: in every reachable state, applying the
\* same FrameAttached{frame_id, parent_id} twice leaves the FrameManager as
\* applying it once does, and an attach whose frame_id is already in the map
\* changes nothing.
C16_AttachIdempotent ==
    \A f \in FrameIds, p \in OptionOf(FrameIds) :
        LET once == OnFrameAttached(fm, f, p) IN
        /\ OnFrameAttached(once, f, p) = once
        /\ f \in DOMAIN fm.frames => once = fm

\* a FrameAttached event put G, as Frame::with_parent leaves it, under the
\* child C of F; a further attach of G or of C finds the id in the map
C16_Witness ==
    /\ nEvents >= 1
    /\ DOMAIN fm.frames = { "F", "C", "G" }
    /\ fm.frames["G"] = FrameWithParent("G", fm.frames["C"])
    /\ "G" \in fm.frames["C"].child_frames
    /\ fm.frames["C"].parent_frame = Some("F")
    /\ OnFrameAttached(fm, "G", Some("F")) = fm

\* the frame ids of a map with their parent links and child sets
Shape(frames) ==
    [k \in DOMAIN frames |->
        [parent_frame |-> frames[k].parent_frame, child_frames |-> frames[k].child_frames]]

\* C17: after a FrameTree snapshot applied to the empty FrameManager, a
\* FrameDetached for the snapshot's root and the same FrameTree applied again,
\* the frame map has the frame ids, parent links and child sets the first
\* application left.
C17_DetachReplay ==
    (IsSome(round) /\ Unwrap(round).stage = "replayed")
        => /\ ~panicked
           /\ Shape(fm.frames) = Shape(Unwrap(round).frames)

\* C18 (scenario S6): a FrameNavigated for the main frame F, which has child
\* frames, carrying loader id L leaves a frame map that contains only F, with
\* F's child set empty and F.loader_id = L.
C18_SubtreeInvalidation ==
    [][\A frame \in CdpFrames :
        ( /\ FrameNavigatedEvent(frame)
          /\ frame.parent_id = None
          /\ fm.main_frame = Some(frame.id)
          /\ frame.id \in DOMAIN fm.frames
          /\ fm.frames[frame.id].child_frames # {} )
        => /\ DOMAIN fm'.frames = { frame.id }
           /\ fm'.frames[frame.id].child_frames = {}
           /\ fm'.frames[frame.id].loader_id = Some(frame.loader_id)]_vars

\* ---------------------------------------------------------------------------
\* Properties of the deadline checks
\* ---------------------------------------------------------------------------
\* C19: the deadline checks are strict: a chain step polled with now equal to
\* its deadline yields Pending, a received_response for it arriving at that
\* instant acknowledges it, and an active navigation polled with now equal to
\* its deadline is not resolved with Timeout.
C19_StrictDeadlines ==
    [][/\ ( /\ ChainPollStep
            /\ IsSome(chain.waiting)
            /\ clock = Unwrap(chain.waiting).deadline )
          => (chainRet'.val = PollPending /\ chain' = chain)
       /\ \A m \in Methods :
            ( /\ ReceivedResponse(m)
              /\ IsSome(chain.waiting)
              /\ Unwrap(chain.waiting).method = m
              /\ clock = Unwrap(chain.waiting).deadline )
            => (chainRet'.val = BoolRet(TRUE) /\ chain'.waiting = None)
       /\ \A now \in PollInstants :
            ( /\ PollCall(now)
              /\ IsSome(fm.navigation)
              /\ now = Unwrap(fm.navigation).deadline )
            => (results' = results \/ Last(results').kind # "Timeout")]_vars

\* a step was polled at its deadline and acknowledged at that instant, the
\* chain went on to the next step, and a navigation was polled at its
\* deadline: nothing timed out
C19_Witness ==
    /\ atDeadline = { "chain", "response", "navigation" }
    /\ timeouts = 0
    /\ Len(issued) >= 2
    /\ requested # << >>
    /\ \A i \in 1..Len(results) : results[i].kind # "Timeout"

\* ---------------------------------------------------------------------------
\* Properties of execute
\* ---------------------------------------------------------------------------
\* the errors of a closed command channel or a dropped reply slot
TransportErrors == { "SendError", "Canceled" }

\* the outcome is the decoded result of resp for the method
IsDecoded(outcome, method, resp) ==
    /\ outcome.kind = "Ok"
    /\ outcome.id = Some(resp.id)
    /\ outcome.method = Some(method)
    /\ outcome.result = Some(FromValue(Unwrap(resp.result)).value)

\* what the delivered Response decides when it carries no result
NoResultOutcome(outcome, resp) ==
    /\ (resp.result = None /\ IsSome(resp.error))
          => outcome = ExecErr(<< "Protocol", Unwrap(resp.error) >>)
    /\ (resp.result = None /\ resp.error = None)
          => outcome = ExecErr("Empty Response")

\* C20: every execute call resolves with one outcome, decided by the
\* delivered Response: the decoded result when `result` is present, the
\* peer's protocol error when `result` is absent and `error` present, the
\* empty-response error when both are absent, and a transport error when the
\* command channel or the reply slot was closed before a response came.
C20_ExecuteOutcome ==
    \A i \in 1..Len(calls) :
        LET e == calls[i] IN
        /\ IsSome(e.delivered) =>
              /\ IsSome(Unwrap(e.delivered).result)
                    => IsDecoded(e.outcome, e.cmd.method, Unwrap(e.delivered))
              /\ NoResultOutcome(e.outcome, Unwrap(e.delivered))
        /\ e.closed # "no" =>
              (e.outcome.kind = "Err" /\ Unwrap(e.outcome.error) \in TransportErrors)

\* C20, amended: every execute call resolves with one outcome, decided by the
\* delivered Response: the decoded result when `result` is present and
\* decodes into the response type, a serialization error when it is present
\* and does not decode, the peer's protocol error when `result` is absent
\* and `error` present, the empty-response error when both are absent; and a
\* transport error when the command channel or the reply slot was closed
\* before a response came.
C20_ExecuteOutcomeSerde ==
    \A i \in 1..Len(calls) :
        LET e == calls[i] IN
        /\ IsSome(e.delivered) =>
              /\ IsSome(Unwrap(e.delivered).result) =>
                    IF FromValue(Unwrap(Unwrap(e.delivered).result)).ok
                    THEN IsDecoded(e.outcome, e.cmd.method, Unwrap(e.delivered))
                    ELSE e.outcome = ExecErr("serde_json::Error")
              /\ NoResultOutcome(e.outcome, Unwrap(e.delivered))
        /\ e.closed # "no" =>
              (e.outcome.kind = "Err" /\ Unwrap(e.outcome.error) \in TransportErrors)

\* two calls finished: one got a Response carrying both a decodable result
\* and an error and resolved with the decoded result, the other got a result
\* that does not decode and resolved with the serialization error
C20_Witness ==
    /\ Len(calls) = 2
    /\ tab.exec = None
    /\ \E i \in 1..2 :
          /\ IsSome(calls[i].delivered)
          /\ Unwrap(calls[i].delivered).result = Some("{frameId}")
          /\ IsSome(Unwrap(calls[i].delivered).error)
          /\ calls[i].outcome.kind = "Ok"
    /\ \E i \in 1..2 :
          /\ IsSome(calls[i].delivered)
          /\ Unwrap(calls[i].delivered).result = Some("[]")
          /\ calls[i].outcome = ExecErr("serde_json::Error")

\* C21: FrameDetached{frame_id} removes from the map exactly the named frame
\* and its descendants and takes the id out of its parent's child set; every
\* other frame keeps its parent, loader id, url, name and lifecycle set (and
\* its id and child set), and a detach for an id not in the map changes
\* nothing.
C21_DetachSubtree ==
    [][\A f \in FrameIds :
        FrameDetachedEvent(f) =>
            IF f \in DOMAIN fm.frames
            THEN /\ DOMAIN fm'.frames = DOMAIN fm.frames \ Subtree(fm.frames, f)
                 /\ \A k \in DOMAIN fm'.frames :
                       fm'.frames[k] =
                           IF fm.frames[f].parent_frame = Some(k)
                           THEN [fm.frames[k] EXCEPT !.child_frames = @ \ { f }]
                           ELSE fm.frames[k]
                 /\ fm'.main_frame = fm.main_frame
                 /\ fm'.pending_navigations = fm.pending_navigations
                 /\ fm'.navigation = fm.navigation
            ELSE fm' = fm]_vars

\* a snapshot with descendants was applied to the empty manager and its root
\* was detached: the root and every descendant left the map
C21_Witness ==
    /\ IsSome(round)
    /\ Unwrap(round).stage = "detached"
    /\ Cardinality(DOMAIN Unwrap(round).frames) >= 2
    /\ fm.frames = << >>

\* C22: events that reference unknown frames are ignored: in every reachable
\* state a FrameAttached whose parent_id is absent or not in the map, a child
\* FrameNavigated for a frame id not in the map, and a LifecycleEvent,
\* FrameStoppedLoading or NavigatedWithinDocument for a frame id not in the map
\* each leave the frame map, main_frame, the pending queue and the active
\* navigation as they are (the handler returns the manager it was given).
C22_UnknownFramesIgnored ==
    /\ \A f \in FrameIds, p \in OptionOf(FrameIds) :
          (p = None \/ Unwrap(p) \notin DOMAIN fm.frames) => OnFrameAttached(fm, f, p) = fm
    /\ \A frame \in CdpFrames :
          (IsSome(frame.parent_id) /\ frame.id \notin DOMAIN fm.frames)
              => /\ ~NavigatedPanics(fm, frame)
                 /\ OnFrameNavigated(fm, frame) = fm
    /\ \A e \in LifecycleEvents :
          e.frame_id \notin DOMAIN fm.frames
              => OnPageLifecycleEvent(fm, e.frame_id, e.loader_id, e.name) = fm
    /\ \A f \in FrameIds :
          f \notin DOMAIN fm.frames
              => /\ OnFrameStoppedLoading(fm, f) = fm
                 /\ OnFrameNavigatedWithinDocument(fm, f, "u#x") = fm

\* with a navigation active and another queued the main frame was detached,
\* which emptied the map, and a further event, which can only name a frame
\* that is not in the map, left the manager as it was
C22_Witness ==
    /\ ~panicked
    /\ nEvents = 2
    /\ fm.frames = << >>
    /\ fm.main_frame = Some("F")
    /\ IsSome(fm.navigation)
    /\ Len(fm.pending_navigations) = 1

\* ---------------------------------------------------------------------------
\* Properties of the navigation queue
\* ---------------------------------------------------------------------------
\* C23: when poll(now) starts a queued navigation, the deadline it records
\* for the active navigation is the `now` argument of that call plus
\* REQUEST_TIMEOUT.
C23_DeadlineFromNow ==
    [][\A now \in PollInstants :
        ( /\ PollCall(now)
          /\ fm.navigation = None
          /\ fm.pending_navigations # << >> )
        => /\ IsSome(fm'.navigation)
           /\ Unwrap(fm'.navigation).deadline = now + REQUEST_TIMEOUT]_vars

\* C24: whenever main_frame is set, the frame it names is in the frame map,
\* after any sequence of events including FrameDetached of the main frame;
\* so the "Main frame is tracked." expectation of on_frame_navigated never
\* fails, and goto never enqueues a watcher for a frame that is not in the
\* map.
C24_MainFrameTracked ==
    /\ [](IsSome(fm.main_frame) => Unwrap(fm.main_frame) \in DOMAIN fm.frames)
    /\ [](~panicked)
    /\ [][(GotoCall /\ fm'.pending_navigations # fm.pending_navigations)
            => Last(fm'.pending_navigations).watcher.frame_id \in DOMAIN fm.frames]_vars

\* how often id occurs in a sequence of ids
Count(seq, id) == Cardinality({ i \in 1..Len(seq) : seq[i] = id })

\* No NavigationRequest and no NavigationResult is emitted twice for an id, a
\* result is emitted only for an id whose request was emitted, and a request
\* only for an id navigate_frame enqueued.
AtMostOnce ==
    \A id \in 0..(MaxNavs - 1) :
        /\ Count(requested, id) <= 1
        /\ Count(Ids(results), id) <= 1
        /\ Count(Ids(results), id) = 1 => Count(requested, id) = 1
        /\ Count(requested, id) = 1 => Count(Ids(navLog), id) = 1

\* C25: for every navigation enqueued by navigate_frame, poll emits its
\* NavigationRequest exactly once and then exactly one NavigationResult with
\* the same NavigationId, the request strictly before the result; no result
\* is emitted for an id whose request has not been emitted, and none twice.
C25_RequestThenResult ==
    /\ []AtMostOnce
    /\ [][results' # results
            => /\ results' = Append(results, Last(results'))
               /\ Count(requested, Last(results').id) = 1]_vars
    /\ \A id \in 0..(MaxNavs - 1) :
          [](Count(Ids(navLog), id) = 1
               => <>(Count(requested, id) = 1 /\ Count(Ids(results), id) = 1))

\* C26: a navigation is reported as Ok(NewDocumentNavigation(id)) only if some
\* event changed the target frame's loader id after poll emitted that
\* navigation's own NavigationRequest; the loader swap that completes the
\* first of two navigations queued by consecutive goto calls never by itself
\* completes the second.
C26_OwnLoaderSwap ==
    [][\A now \in PollInstants :
        ( /\ PollObserved(now)
          /\ results' # results
          /\ Last(results').kind = "NewDocumentNavigation" )
        => swapSeen]_vars

====
